---- MODULE Spec2Model ----
(***************************************************************************)
(* A model of scripts/utilities/system-info-gatherer.py: six probes run in *)
(* sequence by main(), the two output files written afterwards, and the    *)
(* try/except of the entry point that turns the outcome into an exit code. *)
(***************************************************************************)
EXTENDS Integers, Sequences, FiniteSets, TLC

----------------------------------------------------------------------------
\* Bounds of the model.

\* How many entries of check_commands the tool probe alone (ToolSpec) walks.
NumTools == 2
\* How many entries of check_commands the whole pipeline (Spec) walks.
PipelineTools == 1
\* How many entries of the macOS common_paths list are modelled.
NumPaths == 1
\* Longest stdout / stderr text a version command prints in ToolSpec.
MaxLen == 2
\* Most pieces a write that fails or is interrupted leaves in the file.
MaxPartial == 1

----------------------------------------------------------------------------
\* Python values. A dict is a function from its keys; values are tagged
\* records so that a str, a bool and a number are never equal.

EmptyMap == [k \in {} |-> {}]
Put(m, k, v) == [x \in (DOMAIN m) \cup {k} |-> IF x = k THEN v ELSE m[x]]

Lit(s) == [lit |-> s]
Str(cs) == [chars |-> cs]
Bool(b) == [bool |-> b]
Num(n) == [tenths |-> n]

\* The dict's items in insertion order, given the order the code inserts in.
Items(m, order) == SelectSeq(order, LAMBDA k : k \in DOMAIN m)

Min(a, b) == IF a < b THEN a ELSE b
Prefix(s, n) == SubSeq(s, 1, Min(n, Len(s)))

----------------------------------------------------------------------------
\* str methods used by the script, on texts given as sequences of characters.

Lower == <<"a","b","c","d","e","f","g","h","i","j","k","l","m",
           "n","o","p","q","r","s","t","u","v","w","x","y","z">>
Upper == <<"A","B","C","D","E","F","G","H","I","J","K","L","M",
           "N","O","P","Q","R","S","T","U","V","W","X","Y","Z">>

IndexIn(c, alphabet) ==
  IF \E i \in 1..Len(alphabet) : alphabet[i] = c
    THEN CHOOSE i \in 1..Len(alphabet) : alphabet[i] = c
    ELSE 0
IsCased(c) == IndexIn(c, Lower) > 0 \/ IndexIn(c, Upper) > 0
ToUpper(c) == IF IndexIn(c, Lower) > 0 THEN Upper[IndexIn(c, Lower)] ELSE c
ToLower(c) == IF IndexIn(c, Upper) > 0 THEN Lower[IndexIn(c, Upper)] ELSE c

\* key.replace('_', ' ')
replace_underscore(cs) == [i \in 1..Len(cs) |-> IF cs[i] = "_" THEN " " ELSE cs[i]]

\* str.title(): a cased character is upper-cased when the character before it
\* is not cased (or there is none) and lower-cased otherwise.
title(cs) ==
  [i \in 1..Len(cs) |->
     IF i = 1 \/ ~IsCased(cs[i - 1]) THEN ToUpper(cs[i]) ELSE ToLower(cs[i])]

IsSpace(c) == c \in {" ", "\n", "\t", "\r"}

\* str.strip()
RECURSIVE lstrip(_)
lstrip(cs) == IF cs # <<>> /\ IsSpace(Head(cs)) THEN lstrip(Tail(cs)) ELSE cs
RECURSIVE rstrip(_)
rstrip(cs) ==
  IF cs # <<>> /\ IsSpace(cs[Len(cs)]) THEN rstrip(SubSeq(cs, 1, Len(cs) - 1)) ELSE cs
strip(cs) == rstrip(lstrip(cs))

\* text.split('\n')[0]
RECURSIVE first_line(_)
first_line(cs) ==
  IF cs = <<>> \/ Head(cs) = "\n" THEN <<>> ELSE <<Head(cs)>> \o first_line(Tail(cs))

\* round(n / unit, 1), in tenths (unit is 1024**2 or 1024**3)
round1(n, unit) == (((n * 10) \div (unit \div 2)) + 1) \div 2

----------------------------------------------------------------------------
\* The fixed tables of the script.

\* The characters of every dict key, tool label and environment name.
chars ==
  "os" :> <<"o","s">> @@
  "os_version" :> <<"o","s","_","v","e","r","s","i","o","n">> @@
  "os_release" :> <<"o","s","_","r","e","l","e","a","s","e">> @@
  "architecture" :> <<"a","r","c","h","i","t","e","c","t","u","r","e">> @@
  "machine" :> <<"m","a","c","h","i","n","e">> @@
  "processor" :> <<"p","r","o","c","e","s","s","o","r">> @@
  "python_version" :> <<"p","y","t","h","o","n","_","v","e","r","s","i","o","n">> @@
  "hostname" :> <<"h","o","s","t","n","a","m","e">> @@
  "ram_gb" :> <<"r","a","m","_","g","b">> @@
  "cpu" :> <<"c","p","u">> @@
  "error" :> <<"e","r","r","o","r">> @@
  "current_shell" :> <<"c","u","r","r","e","n","t","_","s","h","e","l","l">> @@
  "powershell_version" :> <<"p","o","w","e","r","s","h","e","l","l","_","v","e","r","s","i","o","n">> @@
  "internet_connected" :> <<"i","n","t","e","r","n","e","t","_","c","o","n","n","e","c","t","e","d">> @@
  "git" :> <<"g","i","t">> @@
  "node" :> <<"n","o","d","e">> @@
  "npm" :> <<"n","p","m">> @@
  "python" :> <<"p","y","t","h","o","n">> @@
  "python3" :> <<"p","y","t","h","o","n","3">> @@
  "pip" :> <<"p","i","p">> @@
  "docker" :> <<"d","o","c","k","e","r">> @@
  "code" :> <<"c","o","d","e">> @@
  "curl" :> <<"c","u","r","l">> @@
  "wget" :> <<"w","g","e","t">> @@
  "rust" :> <<"r","u","s","t">> @@
  "cargo" :> <<"c","a","r","g","o">> @@
  "go" :> <<"g","o">> @@
  "java" :> <<"j","a","v","a">> @@
  "mvn" :> <<"m","v","n">> @@
  "gradle" :> <<"g","r","a","d","l","e">> @@
  "yarn" :> <<"y","a","r","n">> @@
  "composer" :> <<"c","o","m","p","o","s","e","r">> @@
  "php" :> <<"p","h","p">> @@
  "ruby" :> <<"r","u","b","y">> @@
  "gem" :> <<"g","e","m">> @@
  "terraform" :> <<"t","e","r","r","a","f","o","r","m">> @@
  "kubectl" :> <<"k","u","b","e","c","t","l">> @@
  "ansible" :> <<"a","n","s","i","b","l","e">> @@
  "vagrant" :> <<"v","a","g","r","a","n","t">> @@
  "VS Code" :> <<"V","S"," ","C","o","d","e">> @@
  "Xcode" :> <<"X","c","o","d","e">> @@
  "IntelliJ IDEA" :> <<"I","n","t","e","l","l","i","J"," ","I","D","E","A">> @@
  "PyCharm" :> <<"P","y","C","h","a","r","m">> @@
  "WebStorm" :> <<"W","e","b","S","t","o","r","m">> @@
  "Sublime Text" :> <<"S","u","b","l","i","m","e"," ","T","e","x","t">> @@
  "Atom" :> <<"A","t","o","m">>

\* check_commands of check_installed_software, in dict order.
check_commands == <<
  [tool |-> "git", command |-> <<"git", "--version">>],
  [tool |-> "node", command |-> <<"node", "--version">>],
  [tool |-> "npm", command |-> <<"npm", "--version">>],
  [tool |-> "python", command |-> <<"python", "--version">>],
  [tool |-> "python3", command |-> <<"python3", "--version">>],
  [tool |-> "pip", command |-> <<"pip", "--version">>],
  [tool |-> "docker", command |-> <<"docker", "--version">>],
  [tool |-> "code", command |-> <<"code", "--version">>],
  [tool |-> "curl", command |-> <<"curl", "--version">>],
  [tool |-> "wget", command |-> <<"wget", "--version">>],
  [tool |-> "rust", command |-> <<"rustc", "--version">>],
  [tool |-> "cargo", command |-> <<"cargo", "--version">>],
  [tool |-> "go", command |-> <<"go", "version">>],
  [tool |-> "java", command |-> <<"java", "-version">>],
  [tool |-> "mvn", command |-> <<"mvn", "--version">>],
  [tool |-> "gradle", command |-> <<"gradle", "--version">>],
  [tool |-> "yarn", command |-> <<"yarn", "--version">>],
  [tool |-> "composer", command |-> <<"composer", "--version">>],
  [tool |-> "php", command |-> <<"php", "--version">>],
  [tool |-> "ruby", command |-> <<"ruby", "--version">>],
  [tool |-> "gem", command |-> <<"gem", "--version">>],
  [tool |-> "terraform", command |-> <<"terraform", "--version">>],
  [tool |-> "kubectl", command |-> <<"kubectl", "version", "--client">>],
  [tool |-> "ansible", command |-> <<"ansible", "--version">>],
  [tool |-> "vagrant", command |-> <<"vagrant", "--version">>] >>

\* common_paths of detect_development_environments on macOS, in list order.
darwin_common_paths == <<
  [path |-> "/Applications/Visual Studio Code.app", name |-> "VS Code"],
  [path |-> "/Applications/Xcode.app", name |-> "Xcode"],
  [path |-> "/Applications/IntelliJ IDEA.app", name |-> "IntelliJ IDEA"],
  [path |-> "/Applications/PyCharm.app", name |-> "PyCharm"],
  [path |-> "/Applications/WebStorm.app", name |-> "WebStorm"],
  [path |-> "/Applications/Sublime Text.app", name |-> "Sublime Text"],
  [path |-> "/Applications/Atom.app", name |-> "Atom"] >>

\* The insertion order of each probe's dict.
system_keys == <<"os", "os_version", "os_release", "architecture", "machine",
                 "processor", "python_version", "hostname">>
hardware_keys == <<"ram_gb", "cpu", "error">>
shell_keys == <<"current_shell", "powershell_version">>
network_keys == <<"internet_connected">>
software_keys == [i \in 1..Len(check_commands) |-> check_commands[i].tool]
environment_keys == [i \in 1..Len(darwin_common_paths) |-> darwin_common_paths[i].name]
report_keys == <<"system", "hardware", "software", "environments", "shell", "network">>

\* timeout=5 of the version commands and of ping
TOOL_TIMEOUT == 5
PING_TIMEOUT == 5

Timeout(seconds) == [seconds |-> seconds]
NoTimeout == [none |-> TRUE]

OSFamilies == {"Windows", "Darwin", "Linux", "FreeBSD"}

----------------------------------------------------------------------------
\* The report writer: json.dump and save_to_markdown, as the sequence of
\* pieces written to the file.

\* json.dump(data, f, indent=2): the six top-level entries, verbatim, in order.
json_entries(d) == [i \in 1..Len(report_keys) |-> [key |-> report_keys[i], value |-> d[report_keys[i]]]]

\* key.replace('_', ' ').title()
humanize(k) == title(replace_underscore(chars[k]))

\* f.write(f"- **{key.replace('_', ' ').title()}**: {value}\n")
entry_humanized(k, v) == [bullet |-> humanize(k), value |-> v]
\* The tool and environment lines as they would be if they humanized the key too.
entry_raw_humanized(k, v) == [bullet |-> title(replace_underscore(chars[k])), value |-> v]
\* f.write(f"- **{tool}**: {version}\n") and f.write(f"- **{env}**: {status}\n")
entry_raw(k, v) == [bullet |-> chars[k], value |-> v]

heading(text) == [heading |-> text]
blank_line == [blank |-> TRUE]

section_humanized(text, m, order) ==
  LET ks == Items(m, order) IN
  <<heading(text)>> \o [i \in 1..Len(ks) |-> entry_humanized(ks[i], m[ks[i]])]
section_raw(text, m, order) ==
  LET ks == Items(m, order) IN
  <<heading(text)>> \o [i \in 1..Len(ks) |-> entry_raw(ks[i], m[ks[i]])]

\* The f.write calls of save_to_markdown, in order; `at` is datetime.now().
markdown_writes(d, at) ==
  <<heading("# Computer Information"), [generated |-> at]>>
  \o section_humanized("## System Information", d["system"], system_keys) \o <<blank_line>>
  \o section_humanized("## Hardware", d["hardware"], hardware_keys) \o <<blank_line>>
  \o section_raw("## Installed Development Tools", d["software"], software_keys) \o <<blank_line>>
  \o (IF d["environments"] # EmptyMap
        THEN section_raw("## Development Environments", d["environments"], environment_keys)
             \o <<blank_line>>
        ELSE <<>>)
  \o section_humanized("## Shell Information", d["shell"], shell_keys) \o <<blank_line>>
  \o section_humanized("## Network", d["network"], network_keys)

\* open(path, 'a'), as it would be if the files were opened for appending.
open_append(file) == [exists |-> TRUE, content |-> file.content]
\* open(path, 'w'): the file exists afterwards and is empty.
open_w(file) == [exists |-> TRUE, content |-> <<>>]
\* f.write of each piece, appended to what the open left.
write_all(file, pieces) == [file EXCEPT !.content = @ \o pieces]

NoFile == [exists |-> FALSE, content |-> <<>>]

\* os.makedirs(path, exist_ok): FileExistsError only without exist_ok.
makedirs_raises(exists, exist_ok) == exists /\ ~exist_ok

----------------------------------------------------------------------------
\* What an earlier run of the script can have left in user-data/.

prior_report ==
  [system |-> [k \in {system_keys[i] : i \in 1..Len(system_keys)} |-> Lit("earlier")],
   hardware |-> Put(EmptyMap, "cpu", Lit("earlier")),
   software |-> Put(EmptyMap, "git", Lit("earlier")),
   environments |-> EmptyMap,
   shell |-> Put(EmptyMap, "current_shell", Lit("earlier")),
   network |-> Put(EmptyMap, "internet_connected", Bool(FALSE))]

fresh_fs == [dir |-> FALSE, json |-> NoFile, md |-> NoFile]
left_by_complete_run ==
  [dir |-> TRUE,
   json |-> write_all(open_w(NoFile), json_entries(prior_report)),
   md |-> write_all(open_w(NoFile), markdown_writes(prior_report, 0))]
InitialFilesystems == {fresh_fs, left_by_complete_run}

----------------------------------------------------------------------------
\* State.

VARIABLES
  host,          \* the machine: OS family, search path, installed apps, SHELL, clock
  fs,            \* user-data/: the directory and the two output files
  fs0,           \* user-data/ as it was when the process started
  pc,            \* where main() is
  blocked,       \* a subprocess.run without timeout is waiting on a child that hangs
  raised,        \* the exception that left main(), and the statement it left from
  exit_code,     \* the process exit code, -1 while it runs
  console,       \* what was printed
  calls,         \* the subprocess.run calls made so far, with their timeout
  interrupted,   \* the operator has sent an interrupt during this run
  system_info,   \* the dict get_system_info returned
  hardware,      \* the dict of get_hardware_info
  tools,         \* the dict of check_installed_software
  toolIdx,       \* the position of its loop in check_commands
  last_run,      \* the outcome of the latest version command or ping
  environments,  \* the dict of detect_development_environments
  shell_info,    \* the dict of get_shell_info
  network,       \* the dict of get_network_info
  data           \* the Report of main(), once assembled

vars == <<host, fs, fs0, pc, blocked, raised, exit_code, console, calls, interrupted,
          system_info, hardware, tools, toolIdx, last_run, environments, shell_info,
          network, data>>

NoException == [exc |-> "none", at |-> "none"]
NoRun == [cmd |-> "none", outcome |-> "none", stdout |-> <<>>, stderr |-> <<>>]

\* The hosts modelled: the first n executables of the table may be on the search
\* path, the first NumPaths applications may be installed (they are looked for
\* on macOS only), and SHELL is set on every family but Windows.
Executables(n) == {check_commands[i].command[1] : i \in 1..n}
Applications(n) == {darwin_common_paths[i].path : i \in 1..n}

Hosts(n) ==
  {h \in [os : OSFamilies, path : SUBSET Executables(n),
          apps : SUBSET Applications(NumPaths), shell_set : BOOLEAN, now : {1}] :
     /\ h.os # "Darwin" => h.apps = {}
     /\ h.shell_set = (h.os # "Windows")}

InitWith(hosts, start, filesystems) ==
  /\ host \in hosts
  /\ fs \in filesystems
  /\ fs0 = fs
  /\ pc = start
  /\ blocked = FALSE
  /\ raised = NoException
  /\ exit_code = -1
  /\ console = <<>>
  /\ calls = <<>>
  /\ interrupted = FALSE
  /\ system_info = EmptyMap
  /\ hardware = EmptyMap
  /\ tools = EmptyMap
  /\ toolIdx = 1
  /\ last_run = NoRun
  /\ environments = EmptyMap
  /\ shell_info = EmptyMap
  /\ network = EmptyMap
  /\ data = EmptyMap

\* The outcomes of subprocess.run: the child exits with status 0 or not, cannot be
\* started (OSError), and either runs into the timeout or, without one, hangs.
run_outcomes(timeout) ==
  {"exit0", "exit1", "oserror"} \cup (IF timeout = NoTimeout THEN {"hang"} ELSE {"timeout"})

\* An exception leaves main() for the try/except of the entry point.
propagate(exc) ==
  /\ pc' = "except"
  /\ raised' = [exc |-> exc, at |-> pc]

----------------------------------------------------------------------------
\* main(): the progress line, then get_system_info.

\* main() as it would be if it opened the JSON file before gathering.
main_begin_opening_output ==
  /\ pc = "start"
  /\ console' = Append(console, Lit("Gathering system information..."))
  /\ fs' = [fs EXCEPT !.json = [exists |-> TRUE, content |-> <<>>]]
  /\ pc' = "system"
  /\ UNCHANGED <<host, fs0, blocked, raised, exit_code, calls, interrupted, system_info,
                 hardware, tools, toolIdx, last_run, environments, shell_info, network, data>>

main_begin ==
  /\ pc = "start"
  /\ console' = Append(console, Lit("Gathering system information..."))
  /\ pc' = "system"
  /\ UNCHANGED <<host, fs, fs0, blocked, raised, exit_code, calls, interrupted, system_info,
                 hardware, tools, toolIdx, last_run, environments, shell_info, network, data>>

get_system_info ==
  /\ pc = "system"
  /\ system_info' = [k \in {system_keys[i] : i \in 1..Len(system_keys)} |->
                       IF k = "os" THEN Lit(host.os) ELSE Lit("platform")]
  /\ pc' = "hw_mem"
  /\ UNCHANGED <<host, fs, fs0, blocked, raised, exit_code, console, calls, interrupted,
                 hardware, tools, toolIdx, last_run, environments, shell_info, network, data>>

----------------------------------------------------------------------------
\* get_hardware_info. Command output and pseudo-files are given parsed: a text is
\* a sequence of tokens, a token is a run of digits or other text.

D(n) == [digits |-> n]
T(s) == [text |-> s]
is_int(tok) == "digits" \in DOMAIN tok

Sets(v) == [kind |-> "set", value |-> v]
Skips == [kind |-> "skip"]
Raises(e) == [kind |-> "raise", exc |-> e]

\* stdout.strip().split('\n') of wmic computersystem get TotalPhysicalMemory
WmicMemoryLines == {<<T("TotalPhysicalMemory")>>,
                    <<T("TotalPhysicalMemory"), D(100000000)>>,
                    <<T("TotalPhysicalMemory"), T("")>>}
\* stdout.strip().split('\n') of wmic cpu get Name
WmicCpuLines == {<<T("Name")>>, <<T("Name"), T("cpu")>>}
\* stdout.split(': ') of sysctl hw.memsize
SysctlMemoryFields == {<<T("hw.memsize"), D(100000000)>>, <<T("hw.memsize")>>,
                       <<T("hw.memsize"), T("")>>}
\* stdout.strip() of sysctl -n machdep.cpu.brand_string
SysctlCpuLines == {<<T("cpu")>>}
\* /proc/meminfo: absent, or its lines, each line.split()
MemInfoFiles == {[exists |-> FALSE, lines |-> <<>>],
                 [exists |-> TRUE, lines |-> <<>>],
                 [exists |-> TRUE,
                  lines |-> << <<T("MemFree:"), D(1), T("kB")>>,
                               <<T("MemTotal:"), D(16384000), T("kB")>> >>],
                 [exists |-> TRUE, lines |-> << <<T("MemTotal:"), T("kB")>> >>]}
\* /proc/cpuinfo: absent, or its lines, each line.split(': ')
CpuInfoFiles == {[exists |-> FALSE, lines |-> <<>>],
                 [exists |-> TRUE, lines |-> << <<T("processor"), T("0")>> >>],
                 [exists |-> TRUE, lines |-> << <<T("model name"), T("cpu")>> >>],
                 [exists |-> TRUE, lines |-> << <<T("model name")>> >>]}

\* lines 41-44
windows_memory(lines) ==
  IF Len(lines) > 1
    THEN IF is_int(lines[2]) THEN Sets(Num(round1(lines[2].digits, 1073741824)))
                             ELSE Raises("ValueError")
    ELSE Skips
\* lines 50-52
windows_cpu(lines) == IF Len(lines) > 1 THEN Sets(Lit(lines[2].text)) ELSE Skips
\* line 65
darwin_cpu(lines) == Sets(Lit(lines[1].text))
\* lines 58-59
darwin_memory(fields) ==
  IF Len(fields) < 2 THEN Raises("IndexError")
  ELSE IF is_int(fields[2]) THEN Sets(Num(round1(fields[2].digits, 1073741824)))
  ELSE Raises("ValueError")
\* for line in f: if name in line: ... break -- the first such line, 0 if none
first_line_with(lines, name) ==
  IF \E i \in 1..Len(lines) : lines[i][1] = T(name)
    THEN CHOOSE i \in 1..Len(lines) :
           lines[i][1] = T(name) /\ \A j \in 1..(i - 1) : lines[j][1] # T(name)
    ELSE 0
\* lines 69-74
linux_memory(file) ==
  IF ~file.exists THEN Raises("FileNotFoundError")
  ELSE LET i == first_line_with(file.lines, "MemTotal:") IN
       IF i = 0 THEN Skips
       ELSE IF Len(file.lines[i]) < 2 THEN Raises("IndexError")
       ELSE IF is_int(file.lines[i][2])
         THEN Sets(Num(round1(file.lines[i][2].digits, 1048576)))
         ELSE Raises("ValueError")
\* lines 77-81
linux_cpu(file) ==
  IF ~file.exists THEN Raises("FileNotFoundError")
  ELSE LET i == first_line_with(file.lines, "model name") IN
       IF i = 0 THEN Skips
       ELSE IF Len(file.lines[i]) < 2 THEN Raises("IndexError")
       ELSE Sets(Lit(file.lines[i][2].text))

\* The handler as it would be if it replaced the dict by the error alone.
hardware_except_discarding(hw, exc) ==
  Put(EmptyMap, "error", [message |-> "Could not gather hardware info: ", text |-> exc])

\* hardware["error"] = f"Could not gather hardware info: {str(e)}"
hardware_except(hw, exc) ==
  Put(hw, "error", [message |-> "Could not gather hardware info: ", text |-> exc])

\* One read of the probe under its try: the field is set, left out, or the
\* exception is caught and the probe returns.
hardware_read(key, got, next) ==
  \/ /\ got.kind = "set"
     /\ hardware' = Put(hardware, key, got.value)
     /\ pc' = next
  \/ /\ got.kind = "skip"
     /\ hardware' = hardware
     /\ pc' = next
  \/ /\ got.kind = "raise"
     /\ hardware' = hardware_except(hardware, got.exc)
     /\ pc' = "software"

\* subprocess.run(argv, capture_output=True, text=True) of the hardware probe;
\* parsed is what the code makes of each output the command can print.
hardware_run(cmd, key, parsed, next) ==
  /\ calls' = Append(calls, [cmd |-> cmd, timeout |-> NoTimeout])
  /\ \E o \in run_outcomes(NoTimeout) :
       \/ /\ o = "hang"
          /\ blocked' = TRUE
          /\ UNCHANGED <<hardware, pc>>
       \/ /\ o = "oserror"
          /\ hardware_read(key, Raises("FileNotFoundError"), next)
          /\ UNCHANGED blocked
       \/ /\ o = "exit1"
          /\ hardware_read(key, Skips, next)
          /\ UNCHANGED blocked
       \/ /\ o = "exit0"
          /\ \E got \in parsed : hardware_read(key, got, next)
          /\ UNCHANGED blocked

get_hardware_memory ==
  /\ pc = "hw_mem"
  /\ ~blocked
  /\ \/ /\ host.os = "Windows"
        /\ hardware_run("wmic", "ram_gb", {windows_memory(out) : out \in WmicMemoryLines},
                        "hw_cpu")
     \/ /\ host.os = "Darwin"
        /\ hardware_run("sysctl", "ram_gb", {darwin_memory(out) : out \in SysctlMemoryFields},
                        "hw_cpu")
     \/ /\ host.os = "Linux"
        /\ \E file \in MemInfoFiles : hardware_read("ram_gb", linux_memory(file), "hw_cpu")
        /\ UNCHANGED <<calls, blocked>>
     \/ /\ host.os \notin {"Windows", "Darwin", "Linux"}
        /\ pc' = "software"
        /\ UNCHANGED <<hardware, calls, blocked>>
  /\ UNCHANGED <<host, fs, fs0, raised, exit_code, console, interrupted, system_info,
                 tools, toolIdx, last_run, environments, shell_info, network, data>>

get_hardware_cpu ==
  /\ pc = "hw_cpu"
  /\ ~blocked
  /\ \/ /\ host.os = "Windows"
        /\ hardware_run("wmic", "cpu", {windows_cpu(out) : out \in WmicCpuLines}, "software")
     \/ /\ host.os = "Darwin"
        /\ hardware_run("sysctl", "cpu", {darwin_cpu(out) : out \in SysctlCpuLines},
                        "software")
     \/ /\ host.os = "Linux"
        /\ \E file \in CpuInfoFiles : hardware_read("cpu", linux_cpu(file), "software")
        /\ UNCHANGED <<calls, blocked>>
  /\ UNCHANGED <<host, fs, fs0, raised, exit_code, console, interrupted, system_info,
                 tools, toolIdx, last_run, environments, shell_info, network, data>>

----------------------------------------------------------------------------
\* check_installed_software: one turn of the loop over check_commands.

\* shutil.which(command[0])
which(exe) == exe \in host.path

\* The recorded value as it would be without the stderr preference.
tool_value_stdout_only(outcome, stdout, stderr) ==
  CASE outcome = "exit0" -> Str(strip(first_line(stdout)))
    [] outcome = "exit1" -> Lit("installed (version check failed)")
    [] outcome = "timeout" -> Lit("installed (timeout)")
    [] OTHER -> Lit("installed (error checking version)")

\* lines 125-136: what is recorded for a tool whose version command was run
tool_value(outcome, stdout, stderr) ==
  CASE outcome = "exit0" ->
         Str(IF stderr # <<>> THEN strip(first_line(stderr)) ELSE strip(first_line(stdout)))
    [] outcome = "exit1" -> Lit("installed (version check failed)")
    [] outcome = "timeout" -> Lit("installed (timeout)")
    [] OTHER -> Lit("installed (error checking version)")

\* The turn as it would be if an absent tool were recorded as absent.
record_tool_absent(dict, e, found, outcome, stdout, stderr) ==
  Put(dict, e.tool, IF found THEN tool_value(outcome, stdout, stderr)
                             ELSE Lit("not installed"))

\* lines 122-136: the dict after the turn for entry e, given whether it was run
record_tool(dict, e, found, outcome, stdout, stderr) ==
  IF found THEN Put(dict, e.tool, tool_value(outcome, stdout, stderr)) ELSE dict

\* line 122 when the executable is absent, line 124 when it is found: the
\* version command is run once and its outcome is held until it is recorded.
run_version_command(n, texts) ==
  /\ pc = "software"
  /\ toolIdx <= n
  /\ last_run = NoRun
  /\ LET e == check_commands[toolIdx] IN
       \/ /\ which(e.command[1])
          /\ \E o \in run_outcomes(Timeout(TOOL_TIMEOUT)), out \in texts, err \in texts :
               /\ o \in {"timeout", "oserror"} => (out = <<>> /\ err = <<>>)
               /\ last_run' = [cmd |-> e.command[1], outcome |-> o,
                               stdout |-> out, stderr |-> err]
          /\ calls' = Append(calls, [cmd |-> e.command[1], timeout |-> Timeout(TOOL_TIMEOUT)])
          /\ UNCHANGED <<tools, toolIdx>>
       \/ /\ ~which(e.command[1])
          /\ tools' = record_tool(tools, e, FALSE, "none", <<>>, <<>>)
          /\ toolIdx' = toolIdx + 1
          /\ UNCHANGED <<calls, last_run>>
  /\ UNCHANGED <<host, fs, fs0, pc, blocked, raised, exit_code, console, interrupted,
                 system_info, hardware, environments, shell_info, network, data>>

\* lines 125-136: the outcome is recorded and the loop moves on
record_version ==
  /\ pc = "software"
  /\ last_run # NoRun
  /\ tools' = record_tool(tools, check_commands[toolIdx], TRUE, last_run.outcome,
                          last_run.stdout, last_run.stderr)
  /\ toolIdx' = toolIdx + 1
  /\ last_run' = NoRun
  /\ UNCHANGED <<host, fs, fs0, pc, blocked, raised, exit_code, console, calls, interrupted,
                 system_info, hardware, environments, shell_info, network, data>>

\* return tools
return_tools(n) ==
  /\ pc = "software"
  /\ toolIdx > n
  /\ pc' = "environments"
  /\ UNCHANGED <<host, fs, fs0, blocked, raised, exit_code, console, calls, interrupted,
                 system_info, hardware, tools, toolIdx, last_run, environments, shell_info,
                 network, data>>

\* The version-command texts: every text of at most MaxLen characters.
TextChars == {"v", " ", "\n"}
Texts == UNION {[1..k -> TextChars] : k \in 0..MaxLen}
\* The texts the whole pipeline is run with.
Banners == {<<>>, <<"v">>}

----------------------------------------------------------------------------
\* detect_development_environments

detect_development_environments ==
  /\ pc = "environments"
  /\ environments' =
       IF host.os = "Darwin"
         THEN [name \in {darwin_common_paths[i].name :
                           i \in {j \in 1..NumPaths : darwin_common_paths[j].path \in host.apps}}
                 |-> Lit("installed")]
         ELSE EmptyMap
  /\ pc' = "shell"
  /\ UNCHANGED <<host, fs, fs0, blocked, raised, exit_code, console, calls, interrupted,
                 system_info, hardware, tools, toolIdx, last_run, shell_info, network, data>>

----------------------------------------------------------------------------
\* get_shell_info

\* shell_info["current_shell"] = os.environ.get("SHELL", "unknown")
get_shell_info ==
  /\ pc = "shell"
  /\ shell_info' = Put(EmptyMap, "current_shell",
                       IF host.shell_set THEN Lit("/bin/sh") ELSE Lit("unknown"))
  /\ pc' = IF host.os = "Windows" THEN "shell_ps" ELSE "network"
  /\ UNCHANGED <<host, fs, fs0, blocked, raised, exit_code, console, calls, interrupted,
                 system_info, hardware, tools, toolIdx, last_run, environments, network, data>>

\* lines 183-189: the PowerShell version query under a bare except
get_powershell_version ==
  /\ pc = "shell_ps"
  /\ ~blocked
  /\ calls' = Append(calls, [cmd |-> "powershell", timeout |-> NoTimeout])
  /\ \E o \in run_outcomes(NoTimeout) \cup {"interrupt"} :
       \/ /\ o = "hang"
          /\ blocked' = TRUE
          /\ UNCHANGED <<shell_info, pc, interrupted>>
       \/ /\ o = "exit0"
          /\ shell_info' = Put(shell_info, "powershell_version", Lit("version table"))
          /\ pc' = "network"
          /\ UNCHANGED <<blocked, interrupted>>
       \/ /\ o \in {"exit1", "oserror", "interrupt"}
          /\ interrupted' = (interrupted \/ o = "interrupt")
          /\ pc' = "network"
          /\ UNCHANGED <<blocked, shell_info>>
  /\ UNCHANGED <<host, fs, fs0, raised, exit_code, console, system_info, hardware, tools,
                 toolIdx, last_run, environments, network, data>>

----------------------------------------------------------------------------
\* get_network_info, and the Report main() assembles when it returns.

\* The value as it would be if a ping that cannot run counted as unreachable.
network_value_false(outcome) ==
  CASE outcome = "exit0" -> Bool(TRUE)
    [] OTHER -> Bool(FALSE)

\* lines 197-204
network_value(outcome) ==
  CASE outcome = "exit0" -> Bool(TRUE)
    [] outcome = "exit1" -> Bool(FALSE)
    [] OTHER -> Lit("unknown")

\* lines 249-256
report(net) ==
  [system |-> system_info, hardware |-> hardware, software |-> tools,
   environments |-> environments, shell |-> shell_info, network |-> net]

get_network_info ==
  /\ pc = "network"
  /\ \E o \in run_outcomes(Timeout(PING_TIMEOUT)) \cup {"interrupt"} :
       /\ calls' = Append(calls, [cmd |-> "ping", timeout |-> Timeout(PING_TIMEOUT)])
       /\ last_run' = [cmd |-> "ping", outcome |-> o, stdout |-> <<>>, stderr |-> <<>>]
       /\ network' = Put(EmptyMap, "internet_connected", network_value(o))
       /\ interrupted' = (interrupted \/ o = "interrupt")
  /\ data' = report(network')
  /\ pc' = "mkdir"
  /\ UNCHANGED <<host, fs, fs0, blocked, raised, exit_code, console, system_info, hardware,
                 tools, toolIdx, environments, shell_info>>

----------------------------------------------------------------------------
\* main(), after the probes: the directory, the JSON file, the Markdown file.

\* os.makedirs("user-data", exist_ok=True)
make_output_dir ==
  /\ pc = "mkdir"
  /\ last_run' = NoRun
  /\ \/ /\ ~makedirs_raises(fs.dir, TRUE)
        /\ fs' = [fs EXCEPT !.dir = TRUE]
        /\ pc' = "json_open"
        /\ UNCHANGED raised
     \/ /\ makedirs_raises(fs.dir, TRUE)
        /\ propagate("FileExistsError")
        /\ UNCHANGED fs
     \/ /\ ~fs.dir
        /\ propagate("OSError")
        /\ UNCHANGED fs
  /\ UNCHANGED <<host, fs0, blocked, exit_code, console, calls, interrupted, system_info,
                 hardware, tools, toolIdx, environments, shell_info, network, data>>

\* The pieces a write that stops early can have left: at most MaxPartial of them.
Cuts(pieces) == 0..Min(MaxPartial, Len(pieces) - 1)

\* with open(json_file, 'w') as f:
open_json ==
  /\ pc = "json_open"
  /\ \/ /\ fs' = [fs EXCEPT !.json = open_w(@)]
        /\ pc' = "json_dump"
        /\ UNCHANGED raised
     \/ /\ propagate("OSError")
        /\ UNCHANGED fs
  /\ UNCHANGED <<host, fs0, blocked, exit_code, console, calls, interrupted, system_info,
                 hardware, tools, toolIdx, last_run, environments, shell_info, network, data>>

\* The dump as it would be if the file were not flushed and closed before the
\* Markdown document is written.
dump_json_unflushed ==
  /\ pc = "json_dump"
  /\ \E k \in Cuts(json_entries(data)) :
       fs' = [fs EXCEPT !.json = write_all(@, Prefix(json_entries(data), k))]
  /\ \/ /\ pc' = "md_open"
        /\ UNCHANGED raised
     \/ propagate("OSError")
  /\ UNCHANGED <<host, fs0, blocked, exit_code, console, calls, interrupted, system_info,
                 hardware, tools, toolIdx, last_run, environments, shell_info, network, data>>

\* json.dump(data, f, indent=2)
dump_json ==
  /\ pc = "json_dump"
  /\ \/ /\ fs' = [fs EXCEPT !.json = write_all(@, json_entries(data))]
        /\ pc' = "md_open"
        /\ UNCHANGED raised
     \/ /\ \E k \in Cuts(json_entries(data)) :
             fs' = [fs EXCEPT !.json = write_all(@, Prefix(json_entries(data), k))]
        /\ propagate("OSError")
  /\ UNCHANGED <<host, fs0, blocked, exit_code, console, calls, interrupted, system_info,
                 hardware, tools, toolIdx, last_run, environments, shell_info, network, data>>

\* save_to_markdown: with open(output_file, 'w') as f:
open_markdown ==
  /\ pc = "md_open"
  /\ \/ /\ fs' = [fs EXCEPT !.md = open_w(@)]
        /\ pc' = "md_write"
        /\ UNCHANGED raised
     \/ /\ propagate("OSError")
        /\ UNCHANGED fs
  /\ UNCHANGED <<host, fs0, blocked, exit_code, console, calls, interrupted, system_info,
                 hardware, tools, toolIdx, last_run, environments, shell_info, network, data>>

\* save_to_markdown: the f.write calls
save_to_markdown ==
  /\ pc = "md_write"
  /\ \/ /\ fs' = [fs EXCEPT !.md = write_all(@, markdown_writes(data, host.now))]
        /\ pc' = "summary"
        /\ UNCHANGED raised
     \/ /\ \E k \in Cuts(markdown_writes(data, host.now)) :
             fs' = [fs EXCEPT !.md = write_all(@, Prefix(markdown_writes(data, host.now), k))]
        /\ propagate("OSError")
  /\ UNCHANGED <<host, fs0, blocked, exit_code, console, calls, interrupted, system_info,
                 hardware, tools, toolIdx, last_run, environments, shell_info, network, data>>

\* lines 270-282, and the normal end of the process
print_summary ==
  /\ pc = "summary"
  /\ console' = console
       \o <<Lit("System information saved to user-data/computer-info.md"),
            Lit("Raw data available in user-data/computer-info.json"),
            Lit("System Summary:"),
            [os |-> data["system"]["os"], release |-> data["system"]["os_release"]]>>
       \o (IF "ram_gb" \in DOMAIN data["hardware"]
             THEN <<[ram |-> data["hardware"]["ram_gb"]]>> ELSE <<>>)
       \o (IF "cpu" \in DOMAIN data["hardware"]
             THEN <<[cpu |-> data["hardware"]["cpu"]]>> ELSE <<>>)
       \o <<[found |-> Cardinality(DOMAIN data["software"])]>>
  /\ pc' = "exited"
  /\ exit_code' = 0
  /\ UNCHANGED <<host, fs, fs0, blocked, raised, calls, interrupted, system_info, hardware,
                 tools, toolIdx, last_run, environments, shell_info, network, data>>

----------------------------------------------------------------------------
\* The entry point's handlers, and the operator's interrupt.

\* The handlers as they would be without sys.exit(1) after an error.
entry_except_no_exit ==
  /\ pc = "except"
  /\ console' = Append(console,
                  IF raised.exc = "KeyboardInterrupt"
                    THEN Lit("System information gathering cancelled by user")
                    ELSE [error |-> raised.exc])
  /\ exit_code' = IF raised.exc = "KeyboardInterrupt" THEN 1 ELSE 0
  /\ pc' = "exited"
  /\ UNCHANGED <<host, fs, fs0, blocked, raised, calls, interrupted, system_info, hardware,
                 tools, toolIdx, last_run, environments, shell_info, network, data>>

\* lines 287-292
entry_except ==
  /\ pc = "except"
  /\ console' = Append(console,
                  IF raised.exc = "KeyboardInterrupt"
                    THEN Lit("System information gathering cancelled by user")
                    ELSE [error |-> raised.exc])
  /\ exit_code' = 1
  /\ pc' = "exited"
  /\ UNCHANGED <<host, fs, fs0, blocked, raised, calls, interrupted, system_info, hardware,
                 tools, toolIdx, last_run, environments, shell_info, network, data>>

\* Where a KeyboardInterrupt is not caught before the entry point: everywhere but
\* under the bare excepts of get_shell_info and get_network_info.
Uncaught == {"start", "system", "hw_mem", "hw_cpu", "software", "environments", "shell",
             "mkdir", "json_open", "json_dump", "md_open", "md_write", "summary"}

\* The operator interrupts the process (KeyboardInterrupt at the current statement).
keyboard_interrupt ==
  /\ interrupted' = TRUE
  /\ blocked' = FALSE
  /\ \/ /\ pc \in Uncaught
        /\ propagate("KeyboardInterrupt")
        /\ \/ /\ pc = "json_dump"
              /\ \E k \in Cuts(json_entries(data)) :
                   fs' = [fs EXCEPT !.json = write_all(@, Prefix(json_entries(data), k))]
           \/ /\ pc = "md_write"
              /\ \E k \in Cuts(markdown_writes(data, host.now)) :
                   fs' = [fs EXCEPT !.md =
                            write_all(@, Prefix(markdown_writes(data, host.now), k))]
           \/ /\ pc \notin {"json_dump", "md_write"}
              /\ UNCHANGED fs
     \/ /\ pc = "shell_ps"
        /\ blocked
        /\ pc' = "network"
        /\ UNCHANGED <<raised, fs>>
  /\ UNCHANGED <<host, fs0, exit_code, console, calls, system_info, hardware, tools,
                 toolIdx, last_run, environments, shell_info, network, data>>

----------------------------------------------------------------------------
\* The whole script, one run on any host over any user-data/ an earlier run left.

Init == InitWith(Hosts(PipelineTools), "start", InitialFilesystems)

Next ==
  \/ main_begin
  \/ get_system_info
  \/ get_hardware_memory
  \/ get_hardware_cpu
  \/ run_version_command(PipelineTools, Banners)
  \/ record_version
  \/ return_tools(PipelineTools)
  \/ detect_development_environments
  \/ get_shell_info
  \/ get_powershell_version
  \/ get_network_info
  \/ make_output_dir
  \/ open_json
  \/ dump_json
  \/ open_markdown
  \/ save_to_markdown
  \/ print_summary
  \/ entry_except
  \/ keyboard_interrupt

Spec == Init /\ [][Next]_vars

\* The tool probe alone, on every search path and every text a command prints.

ToolInit ==
  InitWith({h \in Hosts(NumTools) : h.os = "Linux"}, "software", {fresh_fs})

ToolNext ==
  \/ run_version_command(NumTools, Texts)
  \/ record_version
  \/ return_tools(NumTools)

ToolSpec == ToolInit /\ [][ToolNext]_vars

----------------------------------------------------------------------------
\* Properties.

KeySet(order) == {order[i] : i \in 1..Len(order)}
Pieces(file) == {file.content[i] : i \in 1..Len(file.content)}
CompleteJson(d) == [exists |-> TRUE, content |-> json_entries(d)]
CompleteMarkdown(d) == [exists |-> TRUE, content |-> markdown_writes(d, host.now)]
Assembled == DOMAIN data = KeySet(report_keys)
AfterProbes == {"mkdir", "json_open", "json_dump", "md_open", "md_write", "summary"}
CallsOf(cmd) == {i \in 1..Len(calls) : calls[i].cmd = cmd}

\* C1 as stated: once the hardware probe has caught an exception, `error` is the
\* only key of its dict; whatever was gathered before is gone.
C1_ErrorIsOnlyKey == "error" \in DOMAIN hardware => DOMAIN hardware = {"error"}

\* C1 as amended: the step of the hardware probe that catches an exception adds
\* the key `error`, holding the fixed prefix and the exception text, to the dict
\* as it is; every field gathered before keeps its value, and the probe returns.
C1_ErrorAddedToGathered ==
  [][("error" \in DOMAIN hardware' /\ "error" \notin DOMAIN hardware) =>
       /\ DOMAIN hardware' = (DOMAIN hardware) \cup {"error"}
       /\ \A k \in DOMAIN hardware : hardware'[k] = hardware[k]
       /\ hardware'["error"].message = "Could not gather hardware info: "
       /\ hardware'["error"].text \in {"FileNotFoundError", "ValueError", "IndexError"}
       /\ pc' = "software"]_vars

\* The memory was read, then the CPU read raised.
C1_Witness ==
  /\ pc = "software"
  /\ DOMAIN hardware = {"ram_gb", "error"}
  /\ hardware["ram_gb"] = Num(156)

C3_EveryCommandHasTimeout ==
  /\ \A i \in 1..Len(calls) : calls[i].timeout = Timeout(5)
  /\ ~blocked

\* C4: a tool label is a key of the tool probe's dict if and only if the loop has
\* passed its entry and its executable is on the search path, and each such tool
\* has had exactly one version command run or pending.
C4_LabelIffOnPath ==
  \A i \in 1..NumTools :
    LET e == check_commands[i] IN
    /\ e.tool \in DOMAIN tools <=> (i < toolIdx /\ e.command[1] \in host.path)
    /\ e.tool \in DOMAIN tools => Cardinality(CallsOf(e.command[1])) = 1

\* The probe has returned on a host that has node but not git.
C4_Witness ==
  /\ pc = "environments"
  /\ host.path = {"node"}
  /\ DOMAIN tools = {"node"}

\* v is the first line of text with the white space around it removed.
TrimmedFirstLineOf(v, text) ==
  \E n \in 0..Len(text) :
    /\ \A k \in 1..n : text[k] # "\n"
    /\ n = Len(text) \/ text[n + 1] = "\n"
    /\ \E a \in 1..(n + 1), b \in 0..n :
         /\ v = SubSeq(text, a, b)
         /\ \A k \in 1..(a - 1) : IsSpace(text[k])
         /\ \A k \in (b + 1)..n : IsSpace(text[k])
         /\ v # <<>> => (~IsSpace(v[1]) /\ ~IsSpace(v[Len(v)]))

\* C5: the step that records a version command's outcome gives the tool its
\* value by that outcome alone (status 0: the first line of stderr when stderr is
\* not empty, of stdout otherwise; another status, a timeout and any other error:
\* the three fixed texts), keeps what earlier tools got, and goes on with the loop.
C5_ValueByOutcome ==
  [][(pc = "software" /\ last_run # NoRun) =>
       LET label == check_commands[toolIdx].tool IN
       /\ DOMAIN tools' = (DOMAIN tools) \cup {label}
       /\ \A t \in DOMAIN tools : t # label => tools'[t] = tools[t]
       /\ (last_run.outcome = "exit0" /\ last_run.stderr = <<>>) =>
            ("chars" \in DOMAIN tools'[label]
               /\ TrimmedFirstLineOf(tools'[label].chars, last_run.stdout))
       /\ (last_run.outcome = "exit0" /\ last_run.stderr # <<>>) =>
            ("chars" \in DOMAIN tools'[label]
               /\ TrimmedFirstLineOf(tools'[label].chars, last_run.stderr))
       /\ last_run.outcome = "exit1" => tools'[label] = Lit("installed (version check failed)")
       /\ last_run.outcome = "timeout" => tools'[label] = Lit("installed (timeout)")
       /\ last_run.outcome = "oserror" =>
            tools'[label] = Lit("installed (error checking version)")
       /\ pc' = "software"
       /\ toolIdx' = toolIdx + 1
       /\ raised' = NoException]_vars

\* git timed out, and node was then run and printed its version on stderr.
C5_Witness ==
  /\ pc = "software"
  /\ "git" \in DOMAIN tools
  /\ tools["git"] = Lit("installed (timeout)")
  /\ last_run.cmd = "node"
  /\ last_run.outcome = "exit0"
  /\ last_run.stdout = <<"v">>
  /\ last_run.stderr = <<" ", "v">>

\* C6: the network probe runs ping at most once, exactly once by the time it
\* returns; it returns a dict with the one key internet_connected, whose value is
\* the boolean true or false by the exit status and the string "unknown" when the
\* command could not be started or ran into the timeout; no exception leaves it.
C6_NetworkValue ==
  /\ Cardinality(CallsOf("ping")) <= 1
  /\ raised.at # "network"
  /\ pc = "mkdir" =>
       /\ last_run.cmd = "ping"
       /\ Cardinality(CallsOf("ping")) = 1
       /\ DOMAIN network = {"internet_connected"}
       /\ last_run.outcome = "exit0" => network["internet_connected"] = Bool(TRUE)
       /\ last_run.outcome = "exit1" => network["internet_connected"] = Bool(FALSE)
       /\ last_run.outcome \in {"oserror", "timeout"} =>
            (network["internet_connected"] = Lit("unknown")
               /\ "bool" \notin DOMAIN network["internet_connected"])
       /\ data["network"] = network

\* ping could not be started.
C6_Witness ==
  /\ pc = "mkdir"
  /\ last_run.outcome = "oserror"
  /\ network = Put(EmptyMap, "internet_connected", Lit("unknown"))

\* bullet is key with underscores turned into spaces and every word capitalized.
HumanizedFrom(bullet, key) ==
  /\ Len(bullet) = Len(key)
  /\ \A i \in 1..Len(key) :
       /\ key[i] = "_" => bullet[i] = " "
       /\ key[i] # "_" => ToLower(bullet[i]) = ToLower(key[i])
       /\ IsCased(bullet[i]) =>
            (IndexIn(bullet[i], Upper) > 0 <=> (i = 1 \/ ~IsCased(bullet[i - 1])))

\* The document has the line for key k of section sec, with this bullet text.
HasLine(sec, k, text) == [bullet |-> text, value |-> data[sec][k]] \in Pieces(fs.md)

\* C7 as stated: in the document the run has written, the line of every entry of
\* every section carries the humanized key.
C7_EveryKeyHumanized ==
  pc = "summary" =>
    \A sec \in KeySet(report_keys) : \A k \in DOMAIN data[sec] :
      \E text \in {p.bullet : p \in {q \in Pieces(fs.md) : "bullet" \in DOMAIN q}} :
        HumanizedFrom(text, chars[k]) /\ HasLine(sec, k, text)

\* C7 as amended: the lines of the system, hardware, shell and network sections
\* carry the humanized key (ram_gb is "Ram Gb"); the lines of the tool and
\* environment sections carry the label or name as it is (git stays "git").
C7_HumanizedButToolsAndEnvironments ==
  pc = "summary" =>
    /\ \A sec \in {"system", "hardware", "shell", "network"} : \A k \in DOMAIN data[sec] :
         \E text \in {p.bullet : p \in {q \in Pieces(fs.md) : "bullet" \in DOMAIN q}} :
           HumanizedFrom(text, chars[k]) /\ HasLine(sec, k, text)
    /\ \A sec \in {"software", "environments"} : \A k \in DOMAIN data[sec] :
         HasLine(sec, k, chars[k])
    /\ "ram_gb" \in DOMAIN data["hardware"] =>
         HasLine("hardware", "ram_gb", <<"R", "a", "m", " ", "G", "b">>)
    /\ "git" \in DOMAIN data["software"] =>
         (HasLine("software", "git", <<"g", "i", "t">>)
            /\ ~HasLine("software", "git", <<"G", "i", "t">>))

\* A document with a memory line, a git line and an environment line.
C7_Witness ==
  /\ pc = "summary"
  /\ "ram_gb" \in DOMAIN data["hardware"]
  /\ "git" \in DOMAIN data["software"]
  /\ "VS Code" \in DOMAIN data["environments"]

C9_Overwrites ==
  /\ raised.exc # "FileExistsError"
  /\ (pc = "exited" /\ exit_code = 0) =>
       /\ fs.dir
       /\ fs.json = CompleteJson(data)
       /\ fs.md = CompleteMarkdown(data)
       /\ Len(fs.json.content) = Len(report_keys)
       /\ [generated |-> 0] \notin Pieces(fs.md)
       /\ \A p \in Pieces(fs.json) : p.value = data[p.key]

\* A successful run over the complete output of an earlier run.
C9_Witness ==
  /\ pc = "exited"
  /\ exit_code = 0
  /\ fs0 = left_by_complete_run
  /\ fs.json # fs0.json
  /\ fs.md # fs0.md

\* C10: the Markdown file is touched only once the JSON file holds the whole
\* Report of this run, and exit code 0 means both files hold the whole of the
\* same six-key Report; the pair is not atomic (the witness: exit code 1 with the
\* JSON file whole and the Markdown file cut short).
C10_JsonBeforeMarkdown ==
  /\ fs.md # fs0.md => (Assembled /\ fs.json = CompleteJson(data))
  /\ pc \in {"md_open", "md_write", "summary"} => fs.json = CompleteJson(data)
  /\ (pc = "exited" /\ exit_code = 0) =>
       (Assembled /\ fs.json.content = json_entries(data)
          /\ fs.md.content = markdown_writes(data, host.now))

\* The Markdown write failed part-way: exit code 1, JSON whole, Markdown partial.
C10_Witness ==
  /\ pc = "exited"
  /\ exit_code = 1
  /\ raised.at = "md_write"
  /\ fs.json = CompleteJson(data)
  /\ fs.md.exists
  /\ Len(fs.md.content) < Len(markdown_writes(data, host.now))

====
